---- MODULE Spec2Model ----
(***************************************************************************)
(* Model of the video damage detection core:                               *)
(*   VideoProcessingAppService  (admission gate, batch fan-out, cleanup)    *)
(*   ProcessVideoUseCase        (execute, cancel_processing)                *)
(*   JsonVideoRepository / JsonDetectionRepository (the persisted stores)   *)
(*   YOLODamageDetector         (frame loop, statistics, severity)          *)
(*                                                                         *)
(* Scheduling is asyncio's: one event loop, a coroutine runs without       *)
(* interruption until it awaits a collaborator.  Every await of a           *)
(* collaborator call in execute / cancel_processing is a point where other *)
(* tasks may run; the collaborator call itself (a repository save/update,  *)
(* whose own awaits never suspend) is one atomic step.                     *)
(***************************************************************************)
EXTENDS Naturals, Integers, Sequences, FiniteSets, TLC

\* ------------------------------------------------------------------ bounds
MaxTasks == 2
MaxBatchLen == 2
MaxDamages == 1
MaxCleanups == 1
\* collaborator failures and task cancellations injected in one behaviour
MaxFaults == 2
\* frames cap.read() yields in one detection run, boxes the model reports on one frame
MaxFrames == 2
MaxBoxes == 1

\* ------------------------------------------------------- program constants
\* Settings.max_concurrent_detections, the default capacity of the service
max_concurrent_detections == 2

Tasks == 1..MaxTasks

\* ------------------------------------------------------------ the file system
\* One record per path a caller may hand in: what Path.exists(), the suffix,
\* stat().st_size and cv2.VideoCapture say about it.
PathInfo ==
  [ a_mp4       |-> [exists |-> TRUE,  suffix |-> ".mp4",  oversize |-> FALSE, readable |-> TRUE ],
    b_avi       |-> [exists |-> TRUE,  suffix |-> ".avi",  oversize |-> FALSE, readable |-> TRUE ],
    missing_mp4 |-> [exists |-> FALSE, suffix |-> ".mp4",  oversize |-> FALSE, readable |-> FALSE],
    notes_txt   |-> [exists |-> TRUE,  suffix |-> ".txt",  oversize |-> FALSE, readable |-> FALSE],
    big_mp4     |-> [exists |-> TRUE,  suffix |-> ".mp4",  oversize |-> TRUE,  readable |-> TRUE ],
    corrupt_mp4 |-> [exists |-> TRUE,  suffix |-> ".mp4",  oversize |-> FALSE, readable |-> FALSE] ]

Paths == DOMAIN PathInfo

\* Settings.supported_formats
supported_formats == {".mp4", ".avi", ".mov", ".mkv", ".wmv", ".flv", ".webm"}

\* OpenCVVideoProcessor._supported_formats
processor_supported_formats == {".mp4", ".avi", ".mov", ".mkv", ".wmv", ".flv", ".webm", ".m4v"}

\* the suffixes Video.__post_init__ accepts
video_entity_formats == {".mp4", ".avi", ".mov", ".mkv"}

exists(p) == PathInfo[p].exists

is_supported_format(p) == PathInfo[p].suffix \in supported_formats

oversize(p) == PathInfo[p].oversize

\* (mutant) validate_video without opening the file
validate_video_no_open(p) ==
  /\ PathInfo[p].exists
  /\ PathInfo[p].suffix \in processor_supported_formats

\* OpenCVVideoProcessor.validate_video: exists, known suffix, opens and yields a frame
validate_video(p) ==
  /\ PathInfo[p].exists
  /\ PathInfo[p].suffix \in processor_supported_formats
  /\ PathInfo[p].readable

\* Video.__post_init__: TRUE when the constructor raises
video_post_init_raises(p) ==
  \/ ~PathInfo[p].exists
  \/ PathInfo[p].suffix \notin video_entity_formats

\* ------------------------------------------------------------- VideoStatus
\* Enum members (what a Video object holds) and their .value (what is stored)
VideoStatus == {"PROCESSING", "COMPLETED", "FAILED", "CANCELLED", "PENDING"}

StatusValue(m) ==
  CASE m = "PENDING"    -> "pending"
    [] m = "PROCESSING" -> "processing"
    [] m = "COMPLETED"  -> "completed"
    [] m = "FAILED"     -> "failed"
    [] m = "CANCELLED"  -> "cancelled"

NoRecord == [status |-> "absent", file_path |-> "none", damages |-> <<>>]

\* JsonVideoRepository._video_to_dict
video_to_dict(path, status, damages) ==
  [status |-> StatusValue(status), file_path |-> path, damages |-> damages]

VARIABLES
  processing_videos,   \* VideoProcessingAppService._processing_videos (its keys)
  model_loaded,        \* YOLODamageDetector._model is not None
  task,                \* the coroutines: one record per call of process_single_video / execute
  videos,              \* videos.json: video id -> stored dict (NoRecord when absent)
  detections,          \* detections.json: ids of the videos whose DetectionResult is stored
  batch,               \* the call of process_multiple_videos
  canc,                \* the call of cancel_processing
  cleanup,             \* the calls of cleanup_failed_videos
  max_concurrent_processes,  \* VideoProcessingAppService.max_concurrent_processes
  faults,              \* failures injected so far
  det                  \* YOLODamageDetector: the call in progress on the detector

vars == <<processing_videos, model_loaded, task, videos, detections, batch, canc, cleanup,
          max_concurrent_processes, faults, det>>

\* what no action but a failing collaborator changes
env == <<max_concurrent_processes, faults, det>>

\* ------------------------------------------------------ YOLODamageDetector
\* Confidences are counted in hundredths: 80 stands for 0.8.
\* _severity_thresholds
area_small == 1000
area_medium == 5000
confidence_high == 80
confidence_medium == 60

\* the members of the enums of damage.py
DamageType == {"SCRATCH", "DENT", "CRACK", "RUST", "BROKEN_PART", "UNKNOWN"}

DamageSeverity == {"LOW", "MEDIUM", "HIGH", "CRITICAL"}

\* _class_mapping.get(class_id, DamageType.UNKNOWN)
class_mapping(class_id) ==
  CASE class_id = 0 -> "SCRATCH"
    [] class_id = 1 -> "DENT"
    [] class_id = 2 -> "CRACK"
    [] class_id = 3 -> "RUST"
    [] class_id = 4 -> "BROKEN_PART"
    [] OTHER -> "UNKNOWN"

\* the fields of the dataclass BoundingBox: its constructor takes these keywords
BoundingBoxFields == {"x", "y", "width", "height"}

\* the keywords detect_damages_in_frame hands to BoundingBox
detector_box_kwargs == {"x1", "y1", "x2", "y2"}

\* BoundingBox(**kwargs) raises TypeError for a keyword that is no field
BoundingBoxRaises(kwargs) == kwargs # BoundingBoxFields

\* the member of DamageSeverity that _determine_severity names in its return
severity_member_named(area, confidence) ==
  IF confidence >= confidence_high
  THEN IF area >= area_medium THEN "CRITICAL"
       ELSE IF area >= area_small THEN "SEVERE"
       ELSE "MODERATE"
  ELSE IF confidence >= confidence_medium
  THEN IF area >= area_medium THEN "SEVERE"
       ELSE IF area >= area_small THEN "MODERATE"
       ELSE "MINOR"
  ELSE IF area >= area_medium THEN "MODERATE"
       ELSE "MINOR"

\* _determine_severity: DamageSeverity.<name> raises AttributeError when the enum has
\* no member of that name
determine_severity(area, confidence) ==
  LET m == severity_member_named(area, confidence)
  IN  IF m \in DamageSeverity THEN m ELSE "AttributeError"

\* the inputs of the detector: areas and confidences around the thresholds, class ids
\* inside and outside _class_mapping
Areas == {0, 500, area_small - 1, area_small, 1200, area_medium - 1, area_medium, 6000}

Confidences == {0, 50, confidence_medium - 1, confidence_medium, confidence_high - 1,
                confidence_high, 85, 90, 100}

ClassIds == {0, 7}

\* the boxes the model may report on a frame
Boxes == [area : {500, 6000}, conf : {50, 90}, cls : ClassIds]

BoxLists == UNION {[1..n -> Boxes] : n \in 0..MaxBoxes}

\* what self._model(frame) does on one frame: it raises, or it reports boxes
ModelOutputs ==
  {[raised |-> TRUE, boxes |-> <<>>]} \cup {[raised |-> FALSE, boxes |-> bs] : bs \in BoxLists}

NoOutput == [raised |-> FALSE, boxes |-> <<>>]

\* Damage.__post_init__ raises for a confidence outside [0, 1]
damage_post_init_raises(confidence) == ~(0 <= confidence /\ confidence <= 100)

\* the body of the box loop of detect_damages_in_frame raises on box b
BoxRaises(b) ==
  \/ BoundingBoxRaises(detector_box_kwargs)
  \/ determine_severity(b.area, b.conf) = "AttributeError"
  \/ damage_post_init_raises(b.conf)

\* a time in seconds, as the fraction num/den (0.0 is 0/1)
ZeroTime == [num |-> 0, den |-> 1]

\* the Damage built for box b of frame frame_number, with timestamp=0.0
BoxDamage(b, frame_number) ==
  [damage_type |-> class_mapping(b.cls), severity |-> determine_severity(b.area, b.conf),
   confidence |-> b.conf, area |-> b.area, frame_number |-> frame_number,
   timestamp |-> ZeroTime]

\* detect_damages_in_frame: whatever raises inside its try is logged and the frame
\* yields []
detect_damages_in_frame(out, frame_number) ==
  IF out.raised THEN <<>>
  ELSE IF \E i \in 1..Len(out.boxes) : BoxRaises(out.boxes[i]) THEN <<>>
  ELSE [i \in 1..Len(out.boxes) |-> BoxDamage(out.boxes[i], frame_number)]

\* a dict of counts: d.get(k, 0) + 1
EmptyCounts == [k \in {} |-> 0]

Increment(d, k) ==
  IF k \in DOMAIN d THEN [d EXCEPT ![k] = @ + 1]
  ELSE [j \in DOMAIN d \cup {k} |-> IF j = k THEN 1 ELSE d[j]]

\* the accumulators of detect_damages_in_video before the first frame
NoStatistics ==
  [total_frames_processed |-> 0, total_damages_detected |-> 0, damages_by_type |-> EmptyCounts,
   damages_by_severity |-> EmptyCounts, average_confidence |-> [num |-> 0, den |-> 0]]

\* delivered counts the frames cap.read() has yielded; handle_open tells whether the
\* cv2.VideoCapture of the run is open
IdleDet ==
  [pc |-> "idle", frame |-> NoOutput, model_raised |-> FALSE, damages |-> <<>>,
   fps |-> 0, frame_number |-> 0, delivered |-> 0, handle_open |-> FALSE,
   frames_processed |-> 0, total_confidence |-> 0, damages_by_type |-> EmptyCounts,
   damages_by_severity |-> EmptyCounts, statistics |-> NoStatistics, err |-> "none",
   area |-> 0, confidence |-> 0, severity |-> "none"]

\* the inner loop of detect_damages_in_video over the damages of one frame
RECURSIVE Accumulate(_, _)
Accumulate(acc, frame_damages) ==
  IF frame_damages = <<>> THEN acc
  ELSE LET damage == Head(frame_damages)
       IN  Accumulate([acc EXCEPT
                         !.damages = Append(@, damage),
                         !.total_confidence = @ + damage.confidence,
                         !.damages_by_type = Increment(@, damage.damage_type),
                         !.damages_by_severity = Increment(@, damage.severity)],
                      Tail(frame_damages))

\* timestamp = frame_number / fps if fps > 0 else 0
Timestamp(frame_number, fps) ==
  IF fps > 0 THEN [num |-> frame_number, den |-> fps] ELSE ZeroTime

\* damage.timestamp = timestamp, for each damage of the frame
Stamp(frame_damages, timestamp) ==
  [i \in 1..Len(frame_damages) |-> [frame_damages[i] EXCEPT !.timestamp = timestamp]]

\* (mutant) the frame counters advance only for a frame that yielded a damage
FrameBodySkipEmpty(acc, frame_damages) ==
  IF frame_damages = <<>> THEN acc
  ELSE [Accumulate(acc, Stamp(frame_damages, Timestamp(acc.frame_number, acc.fps))) EXCEPT
          !.frames_processed = @ + 1,
          !.frame_number = @ + 1]

\* the body of the frame loop once detect_damages_in_frame has returned: the damages
\* are stamped and accumulated, then frames_processed and frame_number advance
FrameBody(acc, frame_damages) ==
  [Accumulate(acc, Stamp(frame_damages, Timestamp(acc.frame_number, acc.fps))) EXCEPT
     !.frames_processed = @ + 1,
     !.frame_number = @ + 1]

\* (mutant) the guard of the empty list is missing: the division by zero yields no number
AverageConfidenceUnguarded(total_confidence, n) == [num |-> total_confidence, den |-> n]

\* average_confidence, as the fraction num/den of hundredths (0.0 is 0/1)
AverageConfidence(total_confidence, n) ==
  IF n > 0 THEN [num |-> total_confidence, den |-> n] ELSE [num |-> 0, den |-> 1]

\* (mutant) the frames are counted as damages
TotalDamagesFromFrames(acc) == acc.frames_processed

\* total_damages_detected
TotalDamagesDetected(acc) == Len(acc.damages)

\* DetectionStatistics(...) as built at the end of detect_damages_in_video
Statistics(acc) ==
  [total_frames_processed |-> acc.frames_processed,
   total_damages_detected |-> TotalDamagesDetected(acc),
   damages_by_type |-> acc.damages_by_type,
   damages_by_severity |-> acc.damages_by_severity,
   average_confidence |-> AverageConfidence(acc.total_confidence, Len(acc.damages))]

\* DetectionStatistics.__post_init__ raises for counts below 0 or an average outside [0, 1]
statistics_post_init_raises(st) ==
  \/ st.total_frames_processed < 0
  \/ st.total_damages_detected < 0
  \/ st.average_confidence.den <= 0
  \/ st.average_confidence.num < 0
  \/ st.average_confidence.num > 100 * st.average_confidence.den

\* --------------------------------------------------------------- coroutines
IdleTask ==
  [kind |-> "free", path |-> "none", pc |-> "idle", status |-> "none",
   vdamages |-> <<>>, damages |-> <<>>, orig |-> "none", err |-> "none"]

IdleBatch ==
  [state |-> "idle", paths |-> <<>>, tasks |-> <<>>, successful_results |-> <<>>,
   errors |-> 0, raised |-> "none"]

\* result: what the last call returned ("True", "False", or "raised" when its update raised)
IdleCancel == [pc |-> "idle", id |-> 0, result |-> "none"]

IdleCleanup == [calls |-> 0, count |-> 0]

\* the damage lists the DamageDetectionService handed to the use case may return
\* (the bundled YOLODamageDetector, modelled below by det, only ever returns the empty one)
DamageLists == {[i \in 1..n |-> i] : n \in 0..MaxDamages}

\* the await a coroutine is parked at
Suspended ==
  {"validate_video", "load_model", "extract_metadata", "save", "set_confidence_threshold",
   "detect_damages_in_video", "create_annotated_video", "update", "detection_save",
   "failed_update"}

\* outcomes of a collaborator call: TRUE it returns, FALSE it raises
Outcomes == IF faults < MaxFaults THEN BOOLEAN ELSE {TRUE}

Charge(ok) == faults' = IF ok THEN faults ELSE faults + 1

FreeTasks == {t \in Tasks : task[t].kind = "free"}

\* tasks are handed out in index order
NextFree == CHOOSE t \in FreeTasks : \A u \in FreeTasks : t <= u

Init ==
  /\ processing_videos = {}
  /\ model_loaded = FALSE
  /\ task = [t \in Tasks |-> IdleTask]
  /\ videos = [t \in Tasks |-> NoRecord]
  /\ detections = {}
  /\ batch = IdleBatch
  /\ canc = IdleCancel
  /\ cleanup = IdleCleanup
  /\ max_concurrent_processes = max_concurrent_detections
  /\ faults = 0
  /\ det = IdleDet

\* the service constructed with an explicit max_concurrent_processes
InitGate ==
  /\ processing_videos = {}
  /\ model_loaded = FALSE
  /\ task = [t \in Tasks |-> IdleTask]
  /\ videos = [t \in Tasks |-> NoRecord]
  /\ detections = {}
  /\ batch = IdleBatch
  /\ canc = IdleCancel
  /\ cleanup = IdleCleanup
  /\ max_concurrent_processes \in 1..max_concurrent_detections
  /\ faults = 0
  /\ det = IdleDet

\* (mutant) the path is popped at the end of the try body instead of in a finally
PopOnSuccess(t, e) ==
  IF task[t].kind = "gate" /\ e = "ok"
  THEN processing_videos \ {task[t].path} ELSE processing_videos

\* what the finally block of process_single_video leaves in _processing_videos,
\* whatever the outcome e of the call
Pop(t, e) ==
  IF task[t].kind = "gate" THEN processing_videos \ {task[t].path} ELSE processing_videos

\* what is left of a coroutine that ended: its outcome e ("ok" or the exception) and,
\* when it returned a DetectionResult, the damages of that result
Ended(e, ds) ==
  [IdleTask EXCEPT !.kind = "ended", !.pc = "done", !.err = e,
                   !.damages = IF e = "ok" THEN ds ELSE <<>>]

\* The coroutine of t ends with e: the frames of execute and of process_single_video
\* unwind (their locals die), and the finally block pops the path.
Finished(t, e) ==
  /\ task' = [task EXCEPT ![t] = Ended(e, task[t].damages)]
  /\ processing_videos' = Pop(t, e)

\* a call that raises before anything is awaited
Rejected(t, e) == task' = [task EXCEPT ![t] = Ended(e, <<>>)]

\* execute, up to its first await: the existence check
ExecutePrefix(t, k, p) ==
  IF ~exists(p)
  THEN Rejected(t, "FileNotFoundError")
  ELSE task' = [task EXCEPT ![t] = [IdleTask EXCEPT !.kind = k, !.path = p,
                                                     !.pc = "validate_video"]]

\* (mutant) process_single_video without the test of _processing_videos
ProcessSingleVideoPrefixNoGate(t, p) ==
  LET reject(e) == Rejected(t, e) /\ UNCHANGED processing_videos
  IN  IF ~exists(p) THEN reject("FileNotFoundError")
      ELSE IF ~is_supported_format(p) THEN reject("UnsupportedFormat")
      ELSE IF oversize(p) THEN reject("TooLarge")
      ELSE /\ processing_videos' = processing_videos \cup {p}
           /\ ExecutePrefix(t, "gate", p)

\* (mutant) the tests sit inside the try, so the finally pops the path on a rejection too
ProcessSingleVideoPrefixPopOnReject(t, p) ==
  LET reject(e) == Rejected(t, e) /\ processing_videos' = processing_videos \ {p}
  IN  IF p \in processing_videos THEN reject("AlreadyProcessing")
      ELSE IF ~exists(p) THEN reject("FileNotFoundError")
      ELSE IF ~is_supported_format(p) THEN reject("UnsupportedFormat")
      ELSE IF oversize(p) THEN reject("TooLarge")
      ELSE /\ processing_videos' = processing_videos \cup {p}
           /\ ExecutePrefix(t, "gate", p)

\* process_single_video up to the first await of execute
ProcessSingleVideoPrefix(t, p) ==
  LET reject(e) == Rejected(t, e) /\ UNCHANGED processing_videos
  IN  IF p \in processing_videos THEN reject("AlreadyProcessing")
      ELSE IF ~exists(p) THEN reject("FileNotFoundError")
      ELSE IF ~is_supported_format(p) THEN reject("UnsupportedFormat")
      ELSE IF oversize(p) THEN reject("TooLarge")
      ELSE /\ processing_videos' = processing_videos \cup {p}
           /\ ExecutePrefix(t, "gate", p)

\* a caller awaits process_single_video(p)
SubmitOne(p) ==
  /\ FreeTasks # {}
  /\ ProcessSingleVideoPrefix(NextFree, p)
  /\ UNCHANGED <<model_loaded, videos, detections, batch, canc, cleanup, env>>

\* a caller awaits execute(p) directly, not through the service
ExecuteDirect(p) ==
  /\ FreeTasks # {}
  /\ ExecutePrefix(NextFree, "exec", p)
  /\ UNCHANGED <<processing_videos, model_loaded, videos, detections, batch, canc, cleanup, env>>

\* a task made by create_task in process_multiple_videos runs for the first time
StartBatchTask(t) ==
  /\ task[t].pc = "created"
  /\ ProcessSingleVideoPrefix(t, task[t].path)
  /\ UNCHANGED <<model_loaded, videos, detections, batch, canc, cleanup, env>>

\* await validate_video returns
ValidateVideo(t) ==
  /\ task[t].pc = "validate_video"
  /\ IF validate_video(task[t].path)
     THEN /\ task' = [task EXCEPT ![t].pc = "load_model"]
          /\ UNCHANGED processing_videos
     ELSE Finished(t, "InvalidVideo")
  /\ UNCHANGED <<model_loaded, videos, detections, batch, canc, cleanup, env>>

\* await is_model_loaded, and load_model when it is not: load_model reports a
\* failure by returning False, which execute ignores
LoadModel(t) ==
  /\ task[t].pc = "load_model"
  /\ task' = [task EXCEPT ![t].pc = "extract_metadata"]
  /\ IF model_loaded
     THEN UNCHANGED <<model_loaded, faults>>
     ELSE \E ok \in Outcomes : model_loaded' = ok /\ Charge(ok)
  /\ UNCHANGED <<processing_videos, videos, detections, batch, canc, cleanup,
                 max_concurrent_processes, det>>

\* await extract_metadata returns or raises, then the Video is constructed
ExtractMetadata(t) ==
  /\ task[t].pc = "extract_metadata"
  /\ \E ok \in Outcomes :
       /\ Charge(ok)
       /\ IF ~ok THEN Finished(t, "MetadataError")
          ELSE IF video_post_init_raises(task[t].path) THEN Finished(t, "VideoInitError")
          ELSE /\ task' = [task EXCEPT ![t].pc = "save", ![t].status = "PROCESSING"]
               /\ UNCHANGED processing_videos
  /\ UNCHANGED <<model_loaded, videos, detections, batch, canc, cleanup,
                 max_concurrent_processes, det>>

\* (mutant) the except branch forgets video.status = FAILED
RaiseKeepStatus(t, step) ==
  task' = [task EXCEPT ![t].pc = "failed_update", ![t].orig = step]

\* the except branch of execute is entered with the error of `step`
Raise(t, step) ==
  task' = [task EXCEPT ![t].pc = "failed_update", ![t].status = "FAILED", ![t].orig = step]

\* (mutant) the store is written back from an empty dict: only the record at hand is kept
WriteRecordAlone(data, id, rec) == [i \in DOMAIN data |-> IF i = id THEN rec ELSE NoRecord]

\* data = _load_data(); data[id] = rec; _save_data(data): the whole store is loaded,
\* one record replaced and the whole store written back, with no await that suspends
\* in between
WriteRecord(data, id, rec) == [data EXCEPT ![id] = rec]

\* JsonVideoRepository.save
Save(t) ==
  /\ task[t].pc = "save"
  /\ \E ok \in Outcomes :
       /\ Charge(ok)
       /\ IF ok
          THEN /\ videos' = WriteRecord(videos, t,
                               video_to_dict(task[t].path, task[t].status, task[t].vdamages))
               /\ task' = [task EXCEPT ![t].pc = "set_confidence_threshold"]
          ELSE /\ Raise(t, "save")
               /\ UNCHANGED videos
  /\ UNCHANGED <<processing_videos, model_loaded, detections, batch, canc, cleanup,
                 max_concurrent_processes, det>>

\* DamageDetectionService.set_confidence_threshold
SetConfidenceThreshold(t) ==
  /\ task[t].pc = "set_confidence_threshold"
  /\ \E ok \in Outcomes :
       /\ Charge(ok)
       /\ IF ok THEN task' = [task EXCEPT ![t].pc = "detect_damages_in_video"]
          ELSE Raise(t, "set_confidence_threshold")
  /\ UNCHANGED <<processing_videos, model_loaded, videos, detections, batch, canc, cleanup,
                 max_concurrent_processes, det>>

\* lines 86-88 of execute: the Video object is marked COMPLETED and given the damages
MarkCompleted(t, ds) ==
  task' = [task EXCEPT ![t].pc = "update", ![t].status = "COMPLETED",
                       ![t].damages = ds, ![t].vdamages = ds]

\* DamageDetectionService.detect_damages_in_video, then the test of has_damages
DetectDamagesInVideo(t) ==
  /\ task[t].pc = "detect_damages_in_video"
  /\ IF ~model_loaded
     THEN Raise(t, "detect_damages_in_video") /\ UNCHANGED faults
     ELSE \E ok \in Outcomes :
            /\ Charge(ok)
            /\ IF ~ok THEN Raise(t, "detect_damages_in_video")
               ELSE \E ds \in DamageLists :
                      IF Len(ds) > 0
                      THEN task' = [task EXCEPT ![t].pc = "create_annotated_video",
                                                ![t].damages = ds]
                      ELSE MarkCompleted(t, ds)
  /\ UNCHANGED <<processing_videos, model_loaded, videos, detections, batch, canc, cleanup,
                 max_concurrent_processes, det>>

\* VideoProcessingService.create_annotated_video
CreateAnnotatedVideo(t) ==
  /\ task[t].pc = "create_annotated_video"
  /\ \E ok \in Outcomes :
       /\ Charge(ok)
       /\ IF ok THEN MarkCompleted(t, task[t].damages)
          ELSE Raise(t, "create_annotated_video")
  /\ UNCHANGED <<processing_videos, model_loaded, videos, detections, batch, canc, cleanup,
                 max_concurrent_processes, det>>

\* JsonVideoRepository.update raises when the id is not stored, or when the write fails
UpdateRaises(id, ok) == ~ok \/ videos[id] = NoRecord

\* JsonVideoRepository.update
RepoUpdate(id, rec, ok) ==
  IF UpdateRaises(id, ok) THEN UNCHANGED videos ELSE videos' = WriteRecord(videos, id, rec)

\* await update(video) with the Video COMPLETED
Update(t) ==
  /\ task[t].pc = "update"
  /\ \E ok \in Outcomes :
       /\ Charge(ok)
       /\ RepoUpdate(t, video_to_dict(task[t].path, task[t].status, task[t].vdamages), ok)
       /\ IF UpdateRaises(t, ok) THEN Raise(t, "update")
          ELSE task' = [task EXCEPT ![t].pc = "detection_save"]
  /\ UNCHANGED <<processing_videos, model_loaded, detections, batch, canc, cleanup,
                 max_concurrent_processes, det>>

\* (mutant) the result is written even when the save reports a failure
DetectionSaveOnFailure(t) ==
  /\ task[t].pc = "detection_save"
  /\ \E ok \in Outcomes :
       /\ Charge(ok)
       /\ detections' = detections \cup {t}
       /\ IF ok
          THEN Finished(t, "ok")
          ELSE /\ Raise(t, "detection_save")
               /\ UNCHANGED processing_videos
  /\ UNCHANGED <<model_loaded, videos, batch, canc, cleanup, max_concurrent_processes, det>>

\* JsonDetectionRepository.save, then execute returns the result
DetectionSave(t) ==
  /\ task[t].pc = "detection_save"
  /\ \E ok \in Outcomes :
       /\ Charge(ok)
       /\ IF ok
          THEN /\ detections' = detections \cup {t}
               /\ Finished(t, "ok")
          ELSE /\ Raise(t, "detection_save")
               /\ UNCHANGED <<detections, processing_videos>>
  /\ UNCHANGED <<model_loaded, videos, batch, canc, cleanup, max_concurrent_processes, det>>

\* the error that leaves the except branch of execute: `raise e` is reached only
\* when the update before it returned
ExceptBranchError(orig, update_raised) == IF update_raised THEN "failed_update" ELSE orig

\* the except branch: update(video) with the Video FAILED, then `raise e`
FailedUpdate(t) ==
  /\ task[t].pc = "failed_update"
  /\ \E ok \in Outcomes :
       /\ Charge(ok)
       /\ RepoUpdate(t, video_to_dict(task[t].path, task[t].status, task[t].vdamages), ok)
       /\ Finished(t, ExceptBranchError(task[t].orig, UpdateRaises(t, ok)))
  /\ UNCHANGED <<model_loaded, detections, batch, canc, cleanup, max_concurrent_processes, det>>

\* t is one of the tasks process_multiple_videos made
InBatch(t) == \E i \in 1..Len(batch.tasks) : batch.tasks[i] = t

\* the task awaiting process_single_video / execute is cancelled while parked at an
\* await: CancelledError is no Exception, so no except branch runs, only the finally
CancelTask(t) ==
  /\ task[t].pc \in Suspended
  /\ ~InBatch(t)
  /\ faults < MaxFaults
  /\ faults' = faults + 1
  /\ Finished(t, "CancelledError")
  /\ UNCHANGED <<model_loaded, videos, detections, batch, canc, cleanup,
                 max_concurrent_processes, det>>

\* ------------------------------------------------- process_multiple_videos
\* (mutant) only the head of the list is prechecked
BatchPrecheckHead(paths) ==
  IF ~exists(paths[1]) THEN "FileNotFoundError"
  ELSE IF ~is_supported_format(paths[1]) THEN "UnsupportedFormat"
  ELSE "none"

\* the first precheck that fails, scanning the list in order ("none" when all pass)
BatchPrecheck(paths) ==
  LET bad == {i \in 1..Len(paths) : ~exists(paths[i]) \/ ~is_supported_format(paths[i])}
  IN  IF bad = {} THEN "none"
      ELSE LET i == CHOOSE j \in bad : \A k \in bad : j <= k
           IN  IF ~exists(paths[i]) THEN "FileNotFoundError" ELSE "UnsupportedFormat"

\* prechecks, then one create_task per path, then the call parks at gather
ProcessMultipleVideos(paths) ==
  /\ batch.state = "idle"
  /\ Len(paths) <= Cardinality(FreeTasks)
  /\ LET first == NextFree
         made == [i \in 1..Len(paths) |-> first + i - 1]
     IN  IF BatchPrecheck(paths) # "none"
         THEN /\ batch' = [batch EXCEPT !.state = "rejected", !.raised = BatchPrecheck(paths)]
              /\ UNCHANGED task
         ELSE /\ batch' = [batch EXCEPT !.state = "running", !.paths = paths, !.tasks = made]
              /\ task' = [t \in Tasks |->
                            IF \E i \in 1..Len(paths) : made[i] = t
                            THEN [IdleTask EXCEPT !.kind = "gate", !.pc = "created",
                                                  !.path = paths[t - first + 1]]
                            ELSE task[t]]
  /\ UNCHANGED <<processing_videos, model_loaded, videos, detections, canc, cleanup, env>>

\* the results gather hands back, entry i for input i: "ok" or the exception
GatherResults == [i \in 1..Len(batch.tasks) |-> task[batch.tasks[i]].err]

\* (mutant) every gathered entry is kept, exceptions included
SuccessfulResultsUnfiltered(results, ids) == ids

\* (mutant) the successes are collected last first
SuccessfulResultsReversed(results, ids) ==
  LET keep == {i \in 1..Len(results) : results[i] = "ok"}
      rank(i) == Cardinality({j \in keep : j >= i})
  IN  [k \in 1..Cardinality(keep) |-> ids[CHOOSE i \in keep : rank(i) = k]]

\* successful_results: the DetectionResults (named by their video id) of the entries
\* that are no exception, in input order
SuccessfulResults(results, ids) ==
  LET keep == {i \in 1..Len(results) : results[i] = "ok"}
      rank(i) == Cardinality({j \in keep : j <= i})
  IN  [k \in 1..Cardinality(keep) |-> ids[CHOOSE i \in keep : rank(i) = k]]

\* gather(return_exceptions=True) is done: the results are split and the call returns
ProcessMultipleVideosReturn ==
  /\ batch.state = "running"
  /\ \A i \in 1..Len(batch.tasks) : task[batch.tasks[i]].pc = "done"
  /\ batch' = [batch EXCEPT
                 !.state = "returned",
                 !.successful_results = SuccessfulResults(GatherResults, batch.tasks),
                 !.errors = Cardinality({i \in 1..Len(batch.tasks) : GatherResults[i] # "ok"})]
  /\ UNCHANGED <<processing_videos, model_loaded, task, videos, detections, canc, cleanup, env>>

\* ------------------------------------------------------- cancel_processing
\* VideoStatus(value): the member a stored token reads back as
StatusMember(v) == CHOOSE m \in VideoStatus : StatusValue(m) = v

\* JsonVideoRepository._dict_to_video: the Video find_by_id hands back for a stored
\* dict; damages is set to [] whatever the dict holds, and error_message,
\* processed_at and processing_time, which the dict has no key for, are left at None
dict_to_video(d) ==
  [file_path |-> d.file_path, status |-> StatusMember(d.status), damages |-> <<>>,
   error_message |-> "None"]

\* (mutant) cancel_processing without the test of the status
CancelProcessingAnyStatus(id) ==
  /\ canc.pc = "idle"
  /\ IF videos[id] # NoRecord
     THEN canc' = [pc |-> "update", id |-> id, result |-> "none"]
     ELSE canc' = [pc |-> "idle", id |-> id, result |-> "False"]
  /\ UNCHANGED <<processing_videos, model_loaded, task, videos, detections, batch, cleanup, env>>

\* cancel_processing up to its update: find_by_id, the status test, the assignment
CancelProcessing(id) ==
  /\ canc.pc = "idle"
  /\ IF videos[id] # NoRecord /\ StatusMember(videos[id].status) = "PROCESSING"
     THEN canc' = [pc |-> "update", id |-> id, result |-> "none"]
     ELSE canc' = [pc |-> "idle", id |-> id, result |-> "False"]
  /\ UNCHANGED <<processing_videos, model_loaded, task, videos, detections, batch, cleanup, env>>

\* the update of cancel_processing: the Video read by find_by_id (damages = [])
\* is written back CANCELLED
CancelProcessingUpdate ==
  /\ canc.pc = "update"
  /\ \E ok \in Outcomes :
       /\ Charge(ok)
       /\ RepoUpdate(canc.id, video_to_dict(videos[canc.id].file_path, "CANCELLED", <<>>), ok)
       /\ canc' = [pc |-> "idle", id |-> canc.id,
                   result |-> IF UpdateRaises(canc.id, ok) THEN "raised" ELSE "True"]
  /\ UNCHANGED <<processing_videos, model_loaded, task, detections, batch, cleanup,
                 max_concurrent_processes, det>>

\* --------------------------------------------------- cleanup_failed_videos
\* the attributes ProcessVideoUseCase.__init__ sets
UseCaseAttributes ==
  {"_video_repository", "_detection_repository", "_damage_detection_service",
   "_video_processing_service"}

\* JsonVideoRepository.find_by_status: the stored token is compared with the argument
find_by_status(status) == {id \in Tasks : videos[id] # NoRecord /\ videos[id].status = status}

\* (mutant) every stored Video is handed back, whatever its status
get_videos_ignoring_status(status) == {id \in Tasks : videos[id] # NoRecord}

\* get_videos_by_status: it reads process_video_use_case.video_repository inside its
\* try; without that attribute the AttributeError is logged and [] returned
get_videos_by_status(status) ==
  IF "video_repository" \in UseCaseAttributes THEN find_by_status(status) ELSE {}

is_video_processing(p) == p \in processing_videos

\* cleanup_failed_videos: it asks for the member VideoStatus.PROCESSING
CleanupFailedVideos ==
  /\ cleanup.calls < MaxCleanups
  /\ LET failed_videos == get_videos_by_status("PROCESSING")
         repaired == {id \in failed_videos : ~is_video_processing(videos[id].file_path)}
     IN  /\ videos' = [id \in Tasks |->
                         IF id \in repaired
                         THEN video_to_dict(videos[id].file_path, "FAILED", <<>>)
                         ELSE videos[id]]
         /\ cleanup' = [calls |-> cleanup.calls + 1, count |-> Cardinality(repaired)]
  /\ UNCHANGED <<processing_videos, model_loaded, task, detections, batch, canc, env>>

\* ------------------------------------------- calls on the detector itself
\* a caller awaits load_model(): the model is loaded, or the failure is logged
LoadModelDirect ==
  /\ det.pc = "idle"
  /\ ~model_loaded
  /\ \E ok \in BOOLEAN : model_loaded' = ok
  /\ UNCHANGED <<processing_videos, task, videos, detections, batch, canc, cleanup, env>>

\* what cap.get(CAP_PROP_FPS) may report: nothing usable, or 25 frames per second
FrameRates == {0, 25}

\* detect_damages_in_video up to its loop: the model test, set_confidence_threshold,
\* the opening of the file
DetectDamagesInVideoStart(confidence_threshold) ==
  /\ det.pc = "idle"
  /\ \E opened \in BOOLEAN, fps \in FrameRates :
       det' = IF ~model_loaded THEN [IdleDet EXCEPT !.pc = "raised", !.err = "RuntimeError"]
              ELSE IF ~(0 <= confidence_threshold /\ confidence_threshold <= 100)
                   THEN [IdleDet EXCEPT !.pc = "raised", !.err = "ValueError"]
              ELSE IF ~opened THEN [IdleDet EXCEPT !.pc = "raised", !.err = "ValueError"]
              ELSE [IdleDet EXCEPT !.pc = "loop", !.fps = fps, !.handle_open = TRUE]
  /\ UNCHANGED <<processing_videos, model_loaded, task, videos, detections, batch, canc,
                 cleanup, max_concurrent_processes, faults>>

\* one turn of the frame loop: cap.read() yields a frame; encoding it may raise, which
\* ends the run through `except Exception: raise e`, past the cap.release() that follows
\* the loop; detect_damages_in_frame is awaited and its damages are accumulated
DetectFrame ==
  /\ det.pc = "loop"
  /\ det.frames_processed < MaxFrames
  /\ \E encoded \in BOOLEAN, out \in ModelOutputs :
       det' = IF ~encoded
              THEN [IdleDet EXCEPT !.pc = "raised", !.err = "EncodeError",
                                   !.model_raised = det.model_raised,
                                   !.delivered = det.delivered + 1,
                                   !.handle_open = det.handle_open]
              ELSE [FrameBody(det, detect_damages_in_frame(out, det.frame_number)) EXCEPT
                      !.frame = out,
                      !.model_raised = det.model_raised \/ out.raised,
                      !.delivered = @ + 1]
  /\ UNCHANGED <<processing_videos, model_loaded, task, videos, detections, batch, canc,
                 cleanup, max_concurrent_processes, faults>>

\* cap.read() yields no frame: cap.release(), then the statistics are built and the
\* result returned
DetectFinish ==
  /\ det.pc = "loop"
  /\ det' = IF statistics_post_init_raises(Statistics(det))
            THEN [IdleDet EXCEPT !.pc = "raised", !.err = "ValueError",
                                 !.model_raised = det.model_raised,
                                 !.delivered = det.delivered]
            ELSE [det EXCEPT !.pc = "returned", !.statistics = Statistics(det),
                             !.handle_open = FALSE]
  /\ UNCHANGED <<processing_videos, model_loaded, task, videos, detections, batch, canc,
                 cleanup, max_concurrent_processes, faults>>

\* a caller hands _determine_severity a bounding box of the given area
DetermineSeverity(area, confidence) ==
  /\ det.pc = "idle"
  /\ det' = [IdleDet EXCEPT !.pc = "severity", !.area = area, !.confidence = confidence,
                            !.severity = determine_severity(area, confidence)]
  /\ UNCHANGED <<processing_videos, model_loaded, task, videos, detections, batch, canc,
                 cleanup, max_concurrent_processes, faults>>

\* the thresholds a caller may pass: the default, and one out of range
Thresholds == {50, 150}

\* ---------------------------------------------------------- specification
BatchInputs == UNION {[1..n -> Paths] : n \in 1..MaxBatchLen}

Next ==
  \/ \E p \in Paths : SubmitOne(p)
  \/ \E p \in Paths : ExecuteDirect(p)
  \/ \E ps \in BatchInputs : ProcessMultipleVideos(ps)
  \/ \E t \in Tasks : StartBatchTask(t)
  \/ \E t \in Tasks : ValidateVideo(t)
  \/ \E t \in Tasks : LoadModel(t)
  \/ \E t \in Tasks : ExtractMetadata(t)
  \/ \E t \in Tasks : Save(t)
  \/ \E t \in Tasks : SetConfidenceThreshold(t)
  \/ \E t \in Tasks : DetectDamagesInVideo(t)
  \/ \E t \in Tasks : CreateAnnotatedVideo(t)
  \/ \E t \in Tasks : Update(t)
  \/ \E t \in Tasks : DetectionSave(t)
  \/ \E t \in Tasks : FailedUpdate(t)
  \/ \E t \in Tasks : CancelTask(t)
  \/ ProcessMultipleVideosReturn
  \/ \E id \in Tasks : CancelProcessing(id)
  \/ CancelProcessingUpdate
  \/ CleanupFailedVideos
  \/ LoadModelDirect
  \/ \E th \in Thresholds : DetectDamagesInVideoStart(th)
  \/ DetectFrame
  \/ DetectFinish
  \/ \E a \in Areas, c \in Confidences : DetermineSeverity(a, c)

Spec == Init /\ [][Next]_vars

\* the callers of the service alone: single and batch submissions
NextGate ==
  \/ \E p \in Paths : SubmitOne(p)
  \/ \E ps \in BatchInputs : ProcessMultipleVideos(ps)
  \/ \E t \in Tasks : StartBatchTask(t)
  \/ \E t \in Tasks : ValidateVideo(t)
  \/ \E t \in Tasks : LoadModel(t)
  \/ \E t \in Tasks : ExtractMetadata(t)
  \/ \E t \in Tasks : Save(t)
  \/ \E t \in Tasks : SetConfidenceThreshold(t)
  \/ \E t \in Tasks : DetectDamagesInVideo(t)
  \/ \E t \in Tasks : CreateAnnotatedVideo(t)
  \/ \E t \in Tasks : Update(t)
  \/ \E t \in Tasks : DetectionSave(t)
  \/ \E t \in Tasks : FailedUpdate(t)
  \/ \E t \in Tasks : CancelTask(t)
  \/ ProcessMultipleVideosReturn

SpecGate == InitGate /\ [][NextGate]_vars

\* the use case and the maintenance calls, without batches
NextExec ==
  \/ \E p \in Paths : SubmitOne(p)
  \/ \E p \in Paths : ExecuteDirect(p)
  \/ \E t \in Tasks : ValidateVideo(t)
  \/ \E t \in Tasks : LoadModel(t)
  \/ \E t \in Tasks : ExtractMetadata(t)
  \/ \E t \in Tasks : Save(t)
  \/ \E t \in Tasks : SetConfidenceThreshold(t)
  \/ \E t \in Tasks : DetectDamagesInVideo(t)
  \/ \E t \in Tasks : CreateAnnotatedVideo(t)
  \/ \E t \in Tasks : Update(t)
  \/ \E t \in Tasks : DetectionSave(t)
  \/ \E t \in Tasks : FailedUpdate(t)
  \/ \E t \in Tasks : CancelTask(t)
  \/ \E id \in Tasks : CancelProcessing(id)
  \/ CancelProcessingUpdate
  \/ CleanupFailedVideos

SpecExec == Init /\ [][NextExec]_vars

\* the detector on its own
NextDetect ==
  \/ LoadModelDirect
  \/ \E th \in Thresholds : DetectDamagesInVideoStart(th)
  \/ DetectFrame
  \/ DetectFinish
  \/ \E a \in Areas, c \in Confidences : DetermineSeverity(a, c)

SpecDetect == Init /\ [][NextDetect]_vars

\* ------------------------------------------------------------------ claims
\* the runs of execute in flight through the gate
Running(t) == task[t].pc \in Suspended

GateRuns(p) == {t \in Tasks : task[t].kind = "gate" /\ Running(t) /\ task[t].path = p}

\* the errors of the steps execute wraps in its try
StepErrors ==
  {"save", "set_confidence_threshold", "detect_damages_in_video", "create_annotated_video",
   "update", "detection_save"}

\* C1: at no time are two runs in flight through the gate for the same path, and a
\* process_single_video call that starts while its path is admitted ends with the
\* already-processing error.
C1_MutualExclusion ==
  /\ [](\A p \in Paths : Cardinality(GateRuns(p)) <= 1)
  /\ [][\A t \in Tasks :
          (task[t].pc = "created" /\ task'[t].pc # "created"
             /\ task[t].path \in processing_videos)
          => task'[t].err = "AlreadyProcessing"]_vars

\* a call was turned away while the run that holds its path is still in flight
C1_Witness ==
  \E t, u \in Tasks : task[t].err = "AlreadyProcessing" /\ Running(u)
                       /\ task[u].path \in processing_videos

\* C2: the admission set holds exactly the paths of the runs in flight: when a run
\* ends, by success, exception or cancellation, its entry is gone.
C2_ReleaseOnEveryExit ==
  processing_videos = {task[t].path : t \in {u \in Tasks : task[u].kind = "gate" /\ Running(u)}}

\* a cancelled run left its Video behind and its path is admitted again by a later call
C2_Witness ==
  \E t, u \in Tasks :
    /\ task[t].err = "CancelledError"
    /\ videos[t] # NoRecord
    /\ Running(u)
    /\ task[u].path = videos[t].file_path
    /\ task[u].path \in processing_videos

\* C3: the admission set never holds more paths than max_concurrent_processes.
C3_CapacityBound == Cardinality(processing_videos) <= max_concurrent_processes

\* C4: a batch with a path that fails the precheck is rejected in one step that admits
\* nothing, starts no task and creates no Video; a batch that starts has only paths
\* that exist and have a supported format.
C4_AtomicBatchRejection ==
  [][/\ (batch.state = "idle" /\ batch'.state = "rejected")
          => UNCHANGED <<processing_videos, task, videos, detections>>
     /\ (batch.state = "idle" /\ batch'.state = "running")
          => \A i \in 1..Len(batch'.paths) :
               /\ PathInfo[batch'.paths[i]].exists
               /\ PathInfo[batch'.paths[i]].suffix \in supported_formats]_vars

\* a batch was rejected while another run was in flight
C4_Witness == batch.state = "rejected" /\ processing_videos # {} /\ batch.tasks = <<>>

\* the outcomes of the items of the batch
BatchOk == {i \in 1..Len(batch.tasks) : task[batch.tasks[i]].err = "ok"}

BatchFailed == {i \in 1..Len(batch.tasks) : task[batch.tasks[i]].err # "ok"}

\* C5: a batch whose paths pass the precheck returns normally once every item has
\* ended, with as many successes as items that succeeded and as many errors as items
\* that failed.
C5_BatchFailureIsolation ==
  batch.state = "returned" =>
    /\ \A i \in 1..Len(batch.tasks) : task[batch.tasks[i]].pc = "done"
    /\ Len(batch.successful_results) = Cardinality(BatchOk)
    /\ batch.errors = Cardinality(BatchFailed)
    /\ Len(batch.successful_results) + batch.errors = Len(batch.paths)

\* a batch returned with one item that failed in its run and one that succeeded
C5_Witness ==
  /\ batch.state = "returned"
  /\ \E i \in BatchFailed : task[batch.tasks[i]].err \in StepErrors
  /\ BatchOk # {}

\* C6 as stated: the returned list has one entry per input path.
C6_ResultAlignment ==
  batch.state = "returned" => Len(batch.successful_results) = Len(batch.paths)

\* C6 amended: the returned list holds the results of the items that succeeded and
\* nothing else, in input order, each the result of the run of its own input path.
C6_SuccessesInInputOrder ==
  batch.state = "returned" =>
    /\ {batch.successful_results[k] : k \in 1..Len(batch.successful_results)}
         = {batch.tasks[i] : i \in BatchOk}
    /\ \A k, l \in 1..Len(batch.successful_results) :
         k < l => batch.successful_results[k] < batch.successful_results[l]
    /\ \A i \in BatchOk : videos[batch.tasks[i]].file_path = batch.paths[i]

\* the first item of a batch failed in its run and the second succeeded: the only
\* entry returned is the result of the second input
C6_Witness ==
  /\ batch.state = "returned"
  /\ Len(batch.paths) >= 2
  /\ task[batch.tasks[1]].err \in StepErrors
  /\ 2 \in BatchOk
  /\ batch.successful_results[1] = batch.tasks[2]

\* the stored Videos that are PROCESSING with no admission entry for their path
Orphans ==
  {id \in Tasks : videos[id].status = "processing" /\ videos[id].file_path \notin processing_videos}

\* C7: a call of cleanup_failed_videos leaves every orphan FAILED and returns their number.
C7_OrphanReconciliation ==
  [][cleanup'.calls > cleanup.calls =>
       /\ \A id \in Orphans : videos'[id].status = "failed"
       /\ cleanup'.count = Cardinality(Orphans)]_vars

\* execute has returned for t with an error raised after the Video was created
FailedAfterCreation(t) == task[t].pc = "done" /\ task[t].err \in StepErrors \cup {"failed_update"}

\* C8 as stated: after such a return the stored Video is FAILED.
C8_FailureLeavesFailed ==
  \A t \in Tasks : (FailedAfterCreation(t) /\ videos[t] # NoRecord) => videos[t].status = "failed"

\* C8 amended: when the update that marks the Video FAILED returns, the stored Video
\* is FAILED as execute returns and is never PROCESSING afterwards (a cancel_processing
\* that had read it PROCESSING may still store CANCELLED over it).
C8_FailedWhenMarked ==
  /\ [][\A t \in Tasks :
          (task[t].pc = "failed_update" /\ task'[t].pc = "done" /\ task'[t].err \in StepErrors)
          => videos'[t].status = "failed"]_vars
  /\ [](\A t \in Tasks :
          (task[t].pc = "done" /\ task[t].err \in StepErrors)
          => videos[t].status \in {"failed", "cancelled"})

\* detection failed in a run whose Video was stored, and the Video is now FAILED
C8_Witness ==
  \E t \in Tasks : task[t].pc = "done" /\ task[t].err = "detect_damages_in_video"
                   /\ videos[t].status = "failed"

\* C9: the error that leaves the except branch of execute is the error that entered it.
C9_OriginalErrorNotMasked ==
  [][\A t \in Tasks :
       (task[t].pc = "failed_update" /\ task'[t].pc = "done"
          /\ task'[t].err # "CancelledError")
       => task'[t].err = task[t].orig]_vars

\* C10: a call of execute whose path is missing or is no readable video stores no Video
\* and no DetectionResult: every stored record belongs to a file that exists and reads.
C10_ValidationNoSideEffect ==
  /\ \A t \in Tasks :
       (task[t].pc = "done" /\ task[t].err \in {"FileNotFoundError", "InvalidVideo"})
       => (videos[t] = NoRecord /\ t \notin detections)
  /\ \A id \in Tasks :
       (videos[id] # NoRecord \/ id \in detections)
       => /\ videos[id] # NoRecord
          /\ PathInfo[videos[id].file_path].exists
          /\ PathInfo[videos[id].file_path].readable

\* one call failed validation next to a call that stored its Video
C10_Witness ==
  \E t, u \in Tasks :
    /\ task[t].pc = "done" /\ task[t].err = "InvalidVideo" /\ videos[t] = NoRecord
    /\ videos[u] # NoRecord

\* the errors process_single_video raises before it admits the path
GateRejections == {"AlreadyProcessing", "FileNotFoundError", "UnsupportedFormat", "TooLarge"}

\* C11: a process_single_video call that is turned away (path admitted, missing,
\* unsupported or oversize) ends in the step it starts in, without a step of execute,
\* and leaves the admission set, the stored Videos and DetectionResults and the
\* detector as they were.
C11_RejectionChangesNothing ==
  [][\A t \in Tasks :
       (task[t].pc \in {"idle", "created"} /\ task'[t].pc = "done")
       => /\ task'[t].err \in GateRejections
          /\ UNCHANGED <<processing_videos, videos, detections, model_loaded>>]_vars

\* a call was turned away for a path whose run has stored its Video and is still admitted
C11_Witness ==
  \E t, u \in Tasks :
    /\ task[t].err = "AlreadyProcessing"
    /\ Running(u) /\ videos[u] # NoRecord
    /\ videos[u].file_path \in processing_videos

\* C12: when the renderer is awaited (detection returned damages) the run goes on to
\* mark the Video COMPLETED, whether the renderer returns or raises.
C12_RendererFailureNotFatal ==
  [][\A t \in Tasks :
       (task[t].pc = "create_annotated_video" /\ task'[t].pc # "create_annotated_video"
          /\ task'[t].err # "CancelledError")
       => (task'[t].pc = "update" /\ task'[t].status = "COMPLETED")]_vars

\* the stored tokens of the terminal states
TerminalValues == {"completed", "failed", "cancelled"}

\* C13: a stored Video whose status is COMPLETED, FAILED or CANCELLED keeps that status.
C13_OneTerminalState ==
  [][\A id \in Tasks :
       videos[id].status \in TerminalValues => videos'[id].status = videos[id].status]_vars

\* C14: a stored Video whose status is not COMPLETED has no damages.
C14_DamagesOnlyOnSuccess ==
  \A id \in Tasks :
    (videos[id] # NoRecord /\ videos[id].status # "completed") => videos[id].damages = <<>>

\* C15: a run that has ended has its DetectionResult stored exactly when it returned
\* one; a run in flight has none stored; the store changes only in the step in which a
\* run returns its result, by that one result, and never loses an entry.
C15_ResultPersistedOncePerSuccess ==
  /\ [](\A t \in Tasks :
          /\ task[t].pc = "done" => (t \in detections <=> task[t].err = "ok")
          /\ task[t].pc # "done" => t \notin detections)
  /\ [][detections' # detections =>
          \E t \in Tasks :
            /\ detections' = detections \cup {t} /\ t \notin detections
            /\ task[t].pc = "detection_save" /\ task'[t].err = "ok"]_vars

\* one run returned its result and it is stored; another failed at the save of its
\* result and has none
C15_Witness ==
  \E t, u \in Tasks :
    /\ task[t].pc = "done" /\ task[t].err = "ok" /\ t \in detections
    /\ task[u].pc = "done" /\ task[u].err = "detection_save" /\ u \notin detections

SeverityTable(area, confidence) ==
  LET col == IF area >= 5000 THEN 1 ELSE IF area >= 1000 THEN 2 ELSE 3
      row == IF confidence >= 80 THEN <<"CRITICAL", "SEVERE", "MODERATE">>
             ELSE IF confidence >= 60 THEN <<"SEVERE", "MODERATE", "MINOR">>
             ELSE <<"MODERATE", "MINOR", "MINOR">>
  IN  row[col]

\* C17: for every area and confidence handed to it, _determine_severity returns the
\* severity of the table.
C17_SeverityTable ==
  det.pc = "severity" => det.severity = SeverityTable(det.area, det.confidence)

RECURSIVE SumCounts(_)
SumCounts(d) ==
  IF DOMAIN d = {} THEN 0
  ELSE LET k == CHOOSE j \in DOMAIN d : TRUE
       IN  d[k] + SumCounts([j \in DOMAIN d \ {k} |-> d[j]])

RECURSIVE SumConfidence(_)
SumConfidence(ds) == IF ds = <<>> THEN 0 ELSE Head(ds).confidence + SumConfidence(Tail(ds))

\* damage lists to hand to the accumulation: two types, confidences 0, 0.9 and 1
SampleDamages ==
  [damage_type : {"SCRATCH", "UNKNOWN"}, severity : {"CRITICAL"}, confidence : {0, 90, 100},
   area : {6000}]

SampleDamageLists == UNION {[1..n -> SampleDamages] : n \in 0..3}

\* the counts of a snapshot agree with a list of damages
CountsAgree(st, damages) ==
  /\ st.total_damages_detected = Len(damages)
  /\ SumCounts(st.damages_by_type) = st.total_damages_detected

\* C18: the statistics of every result a detection run returns have
\* total_damages_detected equal to the length of its damage list and by-type counts that
\* sum to that total; and the accumulation of the run keeps both for any damages a
\* frame hands it.
C18_StatisticsCountsAgree ==
  /\ det.pc = "returned" => CountsAgree(det.statistics, det.damages)
  /\ \A ds \in SampleDamageLists :
       LET acc == Accumulate(IdleDet, ds)
       IN  acc.damages = ds /\ CountsAgree(Statistics(acc), ds)

\* a run returned whose last frame had a box reported by the model
C18_Witness ==
  /\ det.pc = "returned"
  /\ det.frame.boxes # <<>>
  /\ det.statistics.total_frames_processed = MaxFrames
  /\ det.statistics.total_damages_detected = Len(det.damages)

\* the average of a snapshot is the mean of the confidences of a list of damages, or
\* zero with empty maps for the empty list
AverageAgrees(st, damages) ==
  IF Len(damages) > 0
  THEN /\ st.average_confidence = [num |-> SumConfidence(damages), den |-> Len(damages)]
       /\ 0 <= st.average_confidence.num
       /\ st.average_confidence.num <= 100 * st.average_confidence.den
  ELSE /\ st.average_confidence = [num |-> 0, den |-> 1]
       /\ st.damages_by_type = EmptyCounts
       /\ st.damages_by_severity = EmptyCounts

\* C19: the average_confidence of every result a detection run returns is the sum of
\* the confidences of its damages over their number, within [0, 1], and exactly 0 with
\* empty by-type and by-severity maps when there is no damage; and the accumulation
\* of the run keeps this for any damages a frame hands it.
C19_AverageConfidence ==
  /\ det.pc = "returned" => AverageAgrees(det.statistics, det.damages)
  /\ \A ds \in SampleDamageLists : AverageAgrees(Statistics(Accumulate(IdleDet, ds)), ds)

\* a run over at least one frame returned the zero snapshot
C19_Witness ==
  /\ det.pc = "returned"
  /\ det.frames_processed >= 1
  /\ det.damages = <<>>
  /\ det.statistics.average_confidence = [num |-> 0, den |-> 1]

\* C20: a detection run in which the model raised on a frame does not return a result.
C20_DetectionFailureFailsRun == det.pc = "returned" => ~det.model_raised

\* the Video object a run of execute holds and hands to save / update; execute never
\* assigns its error_message
TaskVideo(t) ==
  [file_path |-> task[t].path, status |-> task[t].status, damages |-> task[t].vdamages,
   error_message |-> "None"]

\* C21: the Video read back by id after a run stored it (save or update) equals the
\* Video the run wrote.
C21_PersistenceRoundTrip ==
  [][\A t \in Tasks :
       (task[t].pc \in {"save", "update", "failed_update"} /\ videos'[t] # videos[t]
          /\ task'[t] # task[t])
       => dict_to_video(videos'[t]) = TaskVideo(t)]_vars

C26_FailureMessageCaptured ==
  \A id \in Tasks :
    videos[id].status = "failed" =>
      /\ "error_message" \in DOMAIN videos[id]
      /\ videos[id].error_message # "None"

\* C27: a stored Video that is COMPLETED has its DetectionResult stored.
C27_CompletedImpliesResult ==
  \A id \in Tasks : videos[id].status = "completed" => id \in detections

\* C24: a call of cleanup_failed_videos leaves as it was every stored Video that is not
\* PROCESSING, and every PROCESSING Video whose path is in the admission set.
C24_CleanupTouchesOnlyOrphans ==
  [][cleanup'.calls > cleanup.calls =>
       \A id \in Tasks :
         (videos[id].status # "processing" \/ videos[id].file_path \in processing_videos)
         => videos'[id] = videos[id]]_vars

\* cleanup ran while one Video was COMPLETED and another PROCESSING with its path admitted
C24_Witness ==
  /\ cleanup.calls >= 1
  /\ \E id, jd \in Tasks :
       /\ videos[id].status = "completed"
       /\ videos[jd].status = "processing"
       /\ videos[jd].file_path \in processing_videos

\* the awaits of execute that write a store
PersistenceSteps == {"save", "update", "detection_save", "failed_update"}

\* C28: a persistence step of one run leaves the Video record and the DetectionResult
\* of every other run as they were, and two runs that both returned their result have
\* both Videos stored COMPLETED and both DetectionResults stored.
C28_NoLostRecord ==
  /\ [][\A t, u \in Tasks :
          (t # u /\ task[t].pc \in PersistenceSteps /\ task'[t] # task[t])
          => /\ videos'[u] = videos[u]
             /\ u \in detections <=> u \in detections']_vars
  /\ [](\A t, u \in Tasks :
          (t # u /\ task[t].pc = "done" /\ task[t].err = "ok"
                 /\ task[u].pc = "done" /\ task[u].err = "ok")
          => /\ videos[t].status = "completed" /\ videos[u].status = "completed"
             /\ {t, u} \subseteq detections)

\* two runs for distinct videos both returned their result
C28_Witness ==
  \E t, u \in Tasks :
    /\ t # u
    /\ task[t].pc = "done" /\ task[t].err = "ok" /\ videos[t].status = "completed"
    /\ task[u].pc = "done" /\ task[u].err = "ok" /\ videos[u].status = "completed"
    /\ detections = {t, u}
    /\ videos[t].file_path # videos[u].file_path

\* the pairs of positions of the batch that hold the same path
DuplicatePairs ==
  {ij \in (1..Len(batch.paths)) \X (1..Len(batch.paths)) :
     ij[1] < ij[2] /\ batch.paths[ij[1]] = batch.paths[ij[2]]}

\* C30: two occurrences of one path in a batch never have their runs in flight together;
\* an occurrence that starts while the path is admitted ends with the already-processing
\* error and no Video; and when the batch call returns, the admission set holds no
\* entry of the batch.
C30_DuplicatePathInBatch ==
  /\ [](\A ij \in DuplicatePairs :
          ~(Running(batch.tasks[ij[1]]) /\ Running(batch.tasks[ij[2]])))
  /\ [][\A t \in Tasks :
          (task[t].pc = "created" /\ task'[t].pc # "created"
             /\ task[t].path \in processing_videos)
          => /\ task'[t].err = "AlreadyProcessing"
             /\ videos'[t] = NoRecord
             /\ UNCHANGED <<videos, processing_videos>>]_vars
  /\ [](batch.state = "returned" =>
          \A p \in processing_videos :
            \E u \in Tasks : ~InBatch(u) /\ Running(u) /\ task[u].path = p)

\* a batch that held one path twice returned: one occurrence was turned away without a
\* Video, the other returned its result, and the admission set is empty
C30_Witness ==
  /\ batch.state = "returned"
  /\ DuplicatePairs # {}
  /\ \E ij \in DuplicatePairs :
       \E t, u \in {batch.tasks[ij[1]], batch.tasks[ij[2]]} :
         /\ task[t].err = "AlreadyProcessing" /\ videos[t] = NoRecord
         /\ task[u].err = "ok" /\ videos[u].status = "completed"
  /\ processing_videos = {}

\* the damages detect_damages_in_frame would build on frame n from a sample list
AtFrame(ds, n) ==
  [i \in 1..Len(ds) |->
     [damage_type |-> ds[i].damage_type, severity |-> ds[i].severity,
      confidence |-> ds[i].confidence, area |-> ds[i].area,
      frame_number |-> n, timestamp |-> ZeroTime]]

\* the frame loop run over a sequence of frames, each given by the damages it yields
RECURSIVE RunFrames(_, _)
RunFrames(acc, frames) ==
  IF frames = <<>> THEN acc
  ELSE RunFrames(FrameBody(acc, AtFrame(Head(frames), acc.frame_number)), Tail(frames))

\* frames to hand to the loop: up to three, each with up to two damages
SampleFrameDamages ==
  UNION {[1..n -> [damage_type : {"SCRATCH"}, severity : {"CRITICAL"}, confidence : {90, 100},
                   area : {6000}]] : n \in 0..2}

SampleFrameLists == UNION {[1..n -> SampleFrameDamages] : n \in 0..3}

\* the damages are in non-decreasing frame order and each carries frame_number / fps
OrderedAndStamped(damages, fps) ==
  /\ \A i, j \in 1..Len(damages) : i < j => damages[i].frame_number <= damages[j].frame_number
  /\ fps > 0 => \A i \in 1..Len(damages) :
                  /\ damages[i].timestamp.den > 0
                  /\ damages[i].timestamp.num * fps = damages[i].frame_number * damages[i].timestamp.den

\* C23: in a detection run the frame index and the count of processed frames both equal
\* the number of frames the source has delivered, so the returned total_frames_processed
\* is that number, and the damages are in frame order, each stamped frame_number / fps;
\* the loop body keeps all of it for any damages a frame hands it.
C23_StrictFrameOrder ==
  /\ det.pc \in {"loop", "returned"} =>
       /\ det.frames_processed = det.delivered
       /\ det.frame_number = det.delivered
  /\ det.pc = "returned" =>
       /\ det.statistics.total_frames_processed = det.delivered
       /\ OrderedAndStamped(det.damages, det.fps)
  /\ \A frames \in SampleFrameLists, fps \in FrameRates :
       LET acc == RunFrames([IdleDet EXCEPT !.fps = fps], frames)
       IN  /\ acc.frames_processed = Len(frames)
           /\ acc.frame_number = Len(frames)
           /\ \A k \in 1..Len(frames) :
                Cardinality({i \in 1..Len(acc.damages) : acc.damages[i].frame_number = k - 1})
                  = Len(frames[k])
           /\ OrderedAndStamped(acc.damages, fps)

\* a run returned after the source delivered every frame, one of which the model raised on
C23_Witness ==
  /\ det.pc = "returned"
  /\ det.delivered = MaxFrames
  /\ det.statistics.total_frames_processed = MaxFrames
  /\ det.model_raised
  /\ det.fps > 0

\* C25: when detect_damages_in_video has returned or raised, the video handle it opened
\* is released.
C25_HandleReleased == det.pc \in {"returned", "raised"} => ~det.handle_open

\* the order of the severities of the specification
SeverityRank == [MINOR |-> 1, MODERATE |-> 2, SEVERE |-> 3, CRITICAL |-> 4]

\* C29: the severity returned for an area and a confidence is a severity of the order
\* MINOR < MODERATE < SEVERE < CRITICAL, and no larger than the severity returned for
\* any area and confidence that are both at least as large.
C29_SeverityMonotone ==
  det.pc = "severity" =>
    \A a2 \in Areas, c2 \in Confidences :
      (det.area <= a2 /\ det.confidence <= c2) =>
        LET s2 == determine_severity(a2, c2)
        IN  /\ det.severity \in DOMAIN SeverityRank
            /\ s2 \in DOMAIN SeverityRank
            /\ SeverityRank[det.severity] <= SeverityRank[s2]

====
